---- MODULE Spec2Model ----
(***************************************************************************)
(* Model of the power-metrics scripts of my-labs:                          *)
(*   extract_metrics_to_csv.py, json_to_csv_simple.py,                     *)
(*   plot_power_curves.py (JSON input), chirop/json_to_csv.py and          *)
(*   chirop/plot_chirop5_power.py (load_chirop5_data, load_config_info).   *)
(* Spec runs one metrics script on one JSON document, ConfigSpec runs      *)
(* load_config_info on one configuration file.                             *)
(*                                                                         *)
(* Python strings are sequences of one-character strings, so that          *)
(* concatenation, emptiness and lexicographic comparison are computed.     *)
(* A JSON value is a record [tag, s, n]: tag "absent" (key not in the      *)
(* object), "null" (None), "str" (text in s) or "num" (integer in n).      *)
(***************************************************************************)
EXTENDS Integers, Sequences, FiniteSets, TLC

VARIABLES
    prog,          \* which script runs
    data,          \* the document json.load returned
    pc,            \* position of the script
    i,             \* index of the loop over the records / over the devices
    grouped_data,  \* extract_metrics_to_csv: defaultdict(list) of rows
    devices,       \* json_to_csv_simple: defaultdict(list) of rows
    devices_data,  \* plot_power_curves: dict of timestamps / power_watts lists;
                   \* chirop/json_to_csv: defaultdict(list) of entries
    files,         \* the CSV files on disk, in creation order
    plots,         \* the curves handed to ax.plot, in drawing order
    warnings,      \* number of "incomplet ignore" lines printed
    error,         \* the uncaught exception that ended the run, or "none"
    timestamps,    \* load_chirop5_data: the list of datetimes
    power_values,  \* load_chirop5_data: the list of absolute values
    lines,         \* load_config_info: f.readlines()
    file_exists,   \* load_config_info: whether txt_file can be opened
    li,            \* load_config_info: index i of enumerate(lines), from 0
    current_zone,  \* load_config_info: None, 'package' or 'dram'
    in_dram,       \* load_config_info: the in_dram flag
    info,          \* load_config_info: the dict that is returned
    cpc,           \* load_config_info: position of the call
    caught,        \* load_config_info: the exception the except clause caught
    in_package,    \* load_timewindow_info: the in_package flag
    found_long_term, \* load_timewindow_info: the found_long_term flag
    exists,        \* chirop main: os.path.exists of data_files + config_files
    missing,       \* chirop main: the file reported as missing, 0 when none
    config_results, \* chirop main: what each configuration file has yielded
    sys_argv,      \* add_machine_profile: sys.argv
    response,      \* add_machine_profile: what input() returned, None before
    profile,       \* add_machine_profile: the profile create_profile built
    config_file    \* add_machine_profile: configs/machine_profiles.json on disk

vars == <<prog, data, pc, i, grouped_data, devices, devices_data, files, plots,
          warnings, error, timestamps, power_values, lines, file_exists, li, current_zone, in_dram, info,
          cpc, caught, in_package, found_long_term, exists, missing,
          config_results, sys_argv, response, profile, config_file>>

metricVars == <<prog, data, pc, i, grouped_data, devices, devices_data, files,
                plots, warnings, error, timestamps, power_values>>

timewindowVars == <<in_package, found_long_term>>

mainVars == <<exists, missing, config_results>>

profileVars == <<sys_argv, response, profile, config_file>>

configVars == <<lines, file_exists, li, current_zone, in_dram, info, cpc, caught,
                in_package, found_long_term, exists, missing, config_results,
                sys_argv, response, profile, config_file>>

----------------------------------------------------------------------------
(* Bounds *)

MaxRecords == 3

MaxLines == 5

----------------------------------------------------------------------------
(* JSON values and Python's view of them *)

Absent == [tag |-> "absent", s |-> <<>>, n |-> 0]

None == [tag |-> "null", s |-> <<>>, n |-> 0]

Str(s) == [tag |-> "str", s |-> s, n |-> 0]

Num(n) == [tag |-> "num", s |-> <<>>, n |-> n]

\* record.get(key): the value, None when the key is not in the object
Get(record, key) == IF record[key].tag = "absent" THEN None ELSE record[key]

\* key in record: for a dict the key is present; for a str it is a substring
\* test, and no key or character of the documents below contains the three
\* field names that line 27 asks for
InRecord(record, key) == record.kind = "dict" /\ record[key].tag # "absent"

\* truth value of an object in an if: None, '' and 0 are false
Truthy(v) ==
    \/ v.tag = "str" /\ v.s # <<>>
    \/ v.tag = "num" /\ v.n # 0

Alphabet == <<"-", "0", "1", "2", "3", "4", "5", "6", "7", "8", "9",
              "N", "_", "a", "b", "c", "e", "h", "i", "k", "m", "n", "o",
              "p", "r", "s", "t", "v", "w">>

\* ord(c): the rank of a character, in code point order
Ord(c) == CHOOSE k \in 1..Len(Alphabet) : Alphabet[k] = c

RECURSIVE StrLess(_, _)
\* a < b on str: lexicographic by code point, a proper prefix is smaller
StrLess(a, b) ==
    IF b = <<>> THEN FALSE
    ELSE IF a = <<>> THEN TRUE
    ELSE IF Ord(Head(a)) < Ord(Head(b)) THEN TRUE
    ELSE IF Ord(Head(a)) > Ord(Head(b)) THEN FALSE
    ELSE StrLess(Tail(a), Tail(b))

Digit(d) == <<"0", "1", "2", "3", "4", "5", "6", "7", "8", "9">>[d + 1]

RECURSIVE NatStr(_)
NatStr(n) == IF n < 10 THEN <<Digit(n)>> ELSE NatStr(n \div 10) \o <<Digit(n % 10)>>

\* str(n) of an int
IntStr(n) == IF n < 0 THEN <<"-">> \o NatStr(-n) ELSE NatStr(n)

\* str(v) as an f-string or the csv module formats it: None is 'None' in an
\* f-string
Format(v) ==
    IF v.tag = "str" THEN v.s
    ELSE IF v.tag = "num" THEN IntStr(v.n)
    ELSE <<"N", "o", "n", "e">>

\* a cell of csv.DictWriter: None is written as the empty string
Cell(v) ==
    IF v.tag = "str" THEN v.s
    ELSE IF v.tag = "num" THEN IntStr(v.n)
    ELSE <<>>

----------------------------------------------------------------------------
(* The documents a metrics file can hold *)

\* the device the chirop scripts select: 'chirop-5'
Chirop5 == Str(<<"c", "h", "i", "r", "o", "p", "-", "5">>)

DeviceB == Str(<<"b">>)

T1 == Str(<<"1">>)

T2 == Str(<<"2">>)

Dict(d, t, v) == [kind |-> "dict", device_id |-> d, timestamp |-> t, value |-> v]

\* what iterating a JSON object or a JSON string yields: a str
StrItem == [kind |-> "str", device_id |-> Absent, timestamp |-> Absent, value |-> Absent]

\* well-formed records (among them a value of 0 and two records of one device
\* with the same timestamp), and records with one field missing, null or empty
Records ==
    {Dict(Chirop5, T1, Num(0)), Dict(Chirop5, T1, Num(-1)),
     Dict(Chirop5, T2, Num(1)), Dict(DeviceB, T1, Num(1))}
    \cup {Dict(d, T1, Num(1)) : d \in {Absent, None, Str(<<>>)}}
    \cup {Dict(Chirop5, t, Num(1)) : t \in {Absent, None, Str(<<>>)}}
    \cup {Dict(Chirop5, T1, v) : v \in {Absent, None}}

SeqsUpTo(S, n) == UNION {[1..k -> S] : k \in 0..n}

Documents ==
    {[kind |-> "array", items |-> s] : s \in SeqsUpTo(Records, MaxRecords)}
    \cup {[kind |-> k, items |-> s] : k \in {"object", "string"}, s \in SeqsUpTo({StrItem}, 1)}
    \cup {[kind |-> k, items |-> <<>>] : k \in {"number", "null"}}

\* len(data) and iter(data) raise TypeError on these
HasLen(doc) == doc.kind \in {"array", "object", "string"}

----------------------------------------------------------------------------
(* dict / defaultdict(list), kept as a sequence of entries in insertion order *)

HasKey(d, key) == \E k \in 1..Len(d) : d[k].key = key

IndexOf(d, key) == CHOOSE k \in 1..Len(d) : d[k].key = key

\* a new key is put first, a new row first in its list
DictAppendFront(d, key, row) ==
    IF HasKey(d, key)
    THEN [d EXCEPT ![IndexOf(d, key)].records = <<row>> \o @]
    ELSE <<[key |-> key, records |-> <<row>>]>> \o d

\* an append that never finds the key: every row opens a new entry
DictAppendNew(d, key, row) == Append(d, [key |-> key, records |-> <<row>>])

\* d[key].append(row) on a defaultdict(list)
DictAppend(d, key, row) ==
    IF HasKey(d, key)
    THEN [d EXCEPT ![IndexOf(d, key)].records = Append(@, row)]
    ELSE Append(d, [key |-> key, records |-> <<row>>])

Row(timestamp, value) == [timestamp |-> timestamp, power_watt |-> value]

----------------------------------------------------------------------------
(* list.sort / sorted with key=lambda x: x['timestamp'] *)

\* comparing the keys raises TypeError when a key is None
SortRaises(records) ==
    /\ Len(records) >= 2
    /\ \E k \in 1..Len(records) : records[k].timestamp.tag # "str"

RECURSIVE InsertBeforeEqual(_, _)
\* the insertion with <= for <: x goes before the elements with its own key
InsertBeforeEqual(x, s) ==
    IF s = <<>> THEN <<x>>
    ELSE IF ~StrLess(Head(s).timestamp.s, x.timestamp.s) THEN <<x>> \o s
    ELSE <<Head(s)>> \o InsertBeforeEqual(x, Tail(s))

RECURSIVE Insert(_, _)
\* x goes after every element whose key is not greater than its own
Insert(x, s) ==
    IF s = <<>> THEN <<x>>
    ELSE IF StrLess(x.timestamp.s, Head(s).timestamp.s) THEN <<x>> \o s
    ELSE <<Head(s)>> \o Insert(x, Tail(s))

RECURSIVE SortByTimestamp(_)
SortByTimestamp(records) ==
    IF records = <<>> THEN <<>>
    ELSE Insert(records[Len(records)],
                SortByTimestamp(SubSeq(records, 1, Len(records) - 1)))

----------------------------------------------------------------------------
(* CSV files *)

PowerMetricsSuffix ==
    <<"_", "p", "o", "w", "e", "r", "_", "m", "e", "t", "r", "i", "c", "s",
      ".", "c", "s", "v">>

\* f"{device_id}_power_metrics.csv"
CsvFilename(device_id) == Format(device_id) \o PowerMetricsSuffix

CsvRow(row) == <<Cell(row.timestamp), Cell(row.power_watt)>>

CsvRows(records) == [k \in 1..Len(records) |-> CsvRow(records[k])]

\* open(name, 'w') then the writes: the file is created or truncated
WriteFile(fs, name, rows) ==
    IF \E k \in 1..Len(fs) : fs[k].name = name
    THEN [fs EXCEPT ![CHOOSE k \in 1..Len(fs) : fs[k].name = name].rows = rows]
    ELSE Append(fs, [name |-> name, rows |-> rows])

----------------------------------------------------------------------------
(* extract_metrics_to_csv.py *)

MetricsInit ==
    /\ data \in Documents
    /\ pc = "load"
    /\ i = 1
    /\ grouped_data = <<>>
    /\ devices = <<>>
    /\ devices_data = <<>>
    /\ files = <<>>
    /\ plots = <<>>
    /\ warnings = 0
    /\ error = "none"
    /\ timestamps = <<>>
    /\ power_values = <<>>

\* the uncaught exception ends the script with a traceback
Raise(exc) ==
    /\ pc' = "crashed"
    /\ error' = exc

\* load_json_data: json.load, then len(data) in the message
load_json_data ==
    /\ prog = "extract"
    /\ pc = "load"
    /\ IF HasLen(data)
       THEN pc' = "group" /\ error' = error
       ELSE Raise("TypeError")
    /\ UNCHANGED <<prog, data, i, grouped_data, devices, devices_data, files,
                   plots, warnings,
                   timestamps, power_values>>

IsCompleteTruthyValue(device_id, timestamp, value) ==
    Truthy(device_id) /\ Truthy(timestamp) /\ Truthy(value)

\* if device_id and timestamp and value is not None
IsComplete(device_id, timestamp, value) ==
    Truthy(device_id) /\ Truthy(timestamp) /\ value # None

\* extract_and_group_data: one iteration of the loop, or its end
extract_and_group_data ==
    /\ prog = "extract"
    /\ pc = "group"
    /\ IF i > Len(data.items)
       THEN /\ pc' = "write"
            /\ i' = 1
            /\ UNCHANGED <<grouped_data, warnings, error>>
       ELSE LET record == data.items[i] IN
            IF record.kind # "dict"
            THEN /\ Raise("AttributeError")
                 /\ UNCHANGED <<i, grouped_data, warnings>>
            ELSE LET device_id == Get(record, "device_id")
                     timestamp == Get(record, "timestamp")
                     value == Get(record, "value")
                 IN /\ IF IsComplete(device_id, timestamp, value)
                       THEN /\ grouped_data' =
                                 DictAppend(grouped_data, device_id, Row(timestamp, value))
                            /\ warnings' = warnings
                       ELSE /\ warnings' = warnings + 1
                            /\ grouped_data' = grouped_data
                    /\ i' = i + 1
                    /\ UNCHANGED <<pc, error>>
    /\ UNCHANGED <<prog, data, devices, devices_data, files, plots, timestamps,
                   power_values>>

\* the sort reaches the loaded list as well
DataSortedInPlace(doc) == [doc EXCEPT !.items = SortByTimestamp(@)]

\* the loaded list after records.sort(...): the lists of grouped_data are
\* built by the grouping step out of new dicts, so the list json.load
\* returned is another object and keeps its order
DataAfterSort(doc) == doc

\* write_csv_files: one iteration of the loop over the devices (the series is
\* sorted in place, then written), or the end of the run after print_summary
write_csv_files ==
    /\ prog = "extract"
    /\ pc = "write"
    /\ IF i > Len(grouped_data)
       THEN /\ pc' = "done"
            /\ UNCHANGED <<i, grouped_data, files, data>>
       ELSE LET sorted == SortByTimestamp(grouped_data[i].records) IN
            /\ grouped_data' = [grouped_data EXCEPT ![i].records = sorted]
            /\ data' = DataAfterSort(data)
            /\ files' = WriteFile(files, CsvFilename(grouped_data[i].key), CsvRows(sorted))
            /\ i' = i + 1
            /\ pc' = pc
    /\ UNCHANGED <<prog, devices, devices_data, plots, warnings, error,
                   timestamps, power_values>>

----------------------------------------------------------------------------
(* json_to_csv_simple.py *)

\* main, lines 20-22: json.load
simple_load ==
    /\ prog = "simple"
    /\ pc = "load"
    /\ pc' = "group"
    /\ UNCHANGED <<prog, data, i, grouped_data, devices, devices_data, files,
                   plots, warnings, error, timestamps, power_values>>

\* if 'device_id' in record and 'timestamp' in record and 'value' in record
HasAllKeys(record) ==
    InRecord(record, "device_id") /\ InRecord(record, "timestamp") /\ InRecord(record, "value")

\* main, lines 25-31: one iteration of the grouping loop, or its end
simple_group ==
    /\ prog = "simple"
    /\ pc = "group"
    /\ IF ~HasLen(data)
       THEN /\ Raise("TypeError")
            /\ UNCHANGED <<i, devices>>
       ELSE IF i > Len(data.items)
       THEN /\ pc' = "write"
            /\ i' = 1
            /\ UNCHANGED <<devices, error>>
       ELSE LET record == data.items[i] IN
            /\ devices' =
                 IF HasAllKeys(record)
                 THEN DictAppend(devices, record.device_id,
                                 Row(record.timestamp, record.value))
                 ELSE devices
            /\ i' = i + 1
            /\ UNCHANGED <<pc, error>>
    /\ UNCHANGED <<prog, data, grouped_data, devices_data, files, plots, warnings,
                   timestamps, power_values>>

\* main, lines 36-44: one device: the file is opened and the header written
\* before sorted() is evaluated
simple_write ==
    /\ prog = "simple"
    /\ pc = "write"
    /\ IF i > Len(devices)
       THEN /\ pc' = "done"
            /\ UNCHANGED <<i, files, error>>
       ELSE LET records == devices[i].records
                filename == CsvFilename(devices[i].key)
            IN IF SortRaises(records)
               THEN /\ files' = WriteFile(files, filename, <<>>)
                    /\ Raise("TypeError")
                    /\ i' = i
               ELSE /\ files' = WriteFile(files, filename, CsvRows(SortByTimestamp(records)))
                    /\ i' = i + 1
                    /\ UNCHANGED <<pc, error>>
    /\ UNCHANGED <<prog, data, grouped_data, devices, devices_data, plots, warnings,
                   timestamps, power_values>>

----------------------------------------------------------------------------
(* plot_power_curves.py, JSON input *)

DigitVal(c) == Ord(c) - Ord("0")

RECURSIVE ToDatetime(_)
\* pd.to_datetime / datetime.fromisoformat of a well-formed timestamp: the
\* instant it denotes (timestamps are digit strings here, the instant is
\* their value, so '01' and '1' are two spellings of one instant)
ToDatetime(s) ==
    IF s = <<>> THEN 0
    ELSE ToDatetime(SubSeq(s, 1, Len(s) - 1)) * 10 + DigitVal(s[Len(s)])

\* main, line 395: load_data_from_json starts with json.load
plot_load ==
    /\ prog = "plot"
    /\ pc = "load"
    /\ pc' = "group"
    /\ UNCHANGED <<prog, data, i, grouped_data, devices, devices_data, files,
                   plots, warnings, error, timestamps, power_values>>

\* if device_id and timestamp and value is not None
HasRequiredFields(device_id, timestamp, value) ==
    Truthy(device_id) /\ Truthy(timestamp) /\ value # None

\* the two appends of lines 33-37
SeriesAppend(d, key, ts, value) ==
    IF HasKey(d, key)
    THEN [d EXCEPT ![IndexOf(d, key)].timestamps = Append(@, ts),
                   ![IndexOf(d, key)].power_watts = Append(@, value)]
    ELSE Append(d, [key |-> key, timestamps |-> <<ts>>, power_watts |-> <<value>>])

\* load_data_from_json: one iteration of the loop; at its end main leaves
\* with exit code 1 when no device was found
load_data_from_json ==
    /\ prog = "plot"
    /\ pc = "group"
    /\ IF ~HasLen(data)
       THEN /\ Raise("TypeError")
            /\ UNCHANGED <<i, devices_data>>
       ELSE IF i > Len(data.items)
       THEN /\ pc' = IF devices_data = <<>> THEN "exit1" ELSE "write"
            /\ i' = 1
            /\ UNCHANGED <<devices_data, error>>
       ELSE LET record == data.items[i] IN
            IF record.kind # "dict"
            THEN /\ Raise("AttributeError")
                 /\ UNCHANGED <<i, devices_data>>
            ELSE LET device_id == Get(record, "device_id")
                     timestamp == Get(record, "timestamp")
                     value == Get(record, "value")
                 IN /\ devices_data' =
                         IF HasRequiredFields(device_id, timestamp, value)
                         THEN SeriesAppend(devices_data, device_id,
                                           ToDatetime(timestamp.s), value)
                         ELSE devices_data
                    /\ i' = i + 1
                    /\ UNCHANGED <<pc, error>>
    /\ UNCHANGED <<prog, data, grouped_data, devices, files, plots, warnings,
                   timestamps, power_values>>

\* zip(data['timestamps'], data['power_watts'])
Zip(ts, pw) == [k \in 1..Len(ts) |-> <<ts[k], pw[k]>>]

\* a < b on (Timestamp, number) tuples: the first elements that differ decide
TupleLess(a, b) == a[1] < b[1] \/ (a[1] = b[1] /\ a[2].n < b[2].n)

RECURSIVE InsertTuple(_, _)
InsertTuple(x, s) ==
    IF s = <<>> THEN <<x>>
    ELSE IF TupleLess(x, Head(s)) THEN <<x>> \o s
    ELSE <<Head(s)>> \o InsertTuple(x, Tail(s))

RECURSIVE SortTuples(_)
\* sorted(zip(...)), no key
SortTuples(pairs) ==
    IF pairs = <<>> THEN <<>>
    ELSE InsertTuple(pairs[Len(pairs)], SortTuples(SubSeq(pairs, 1, Len(pairs) - 1)))

\* create_power_plot: one iteration of the loop over the devices, or the
\* savefig that ends it
create_power_plot ==
    /\ prog = "plot"
    /\ pc = "write"
    /\ IF i > Len(devices_data)
       THEN /\ pc' = "done"
            /\ UNCHANGED <<i, plots>>
       ELSE LET sorted_data == SortTuples(Zip(devices_data[i].timestamps,
                                              devices_data[i].power_watts))
            IN /\ plots' = Append(plots, [label |-> Format(devices_data[i].key),
                                          points |-> sorted_data])
               /\ i' = i + 1
               /\ pc' = pc
    /\ UNCHANGED <<prog, data, grouped_data, devices, devices_data, files,
                   warnings, error, timestamps, power_values>>

----------------------------------------------------------------------------
(* plot_power_curves.py, CSV input: load_data_from_csv on the directory
   extract_metrics_to_csv.py has written *)

\* the pattern "*_power_metrics.csv" of glob.glob
MatchesPattern(name) ==
    /\ Len(name) >= Len(PowerMetricsSuffix)
    /\ SubSeq(name, Len(name) - Len(PowerMetricsSuffix) + 1, Len(name)) = PowerMetricsSuffix

RECURSIVE Replace(_, _)
\* s.replace(sub, ''): every occurrence of sub is removed, from left to right
Replace(s, sub) ==
    IF Len(s) < Len(sub) THEN s
    ELSE IF SubSeq(s, 1, Len(sub)) = sub
    THEN Replace(SubSeq(s, Len(sub) + 1, Len(s)), sub)
    ELSE <<Head(s)>> \o Replace(Tail(s), sub)

DeviceIdWithoutExtension(filename) == Str(Replace(filename, <<".", "c", "s", "v">>))

\* line 54: filename.replace('_power_metrics.csv', ''), a str
DeviceIdOf(filename) == Str(Replace(filename, PowerMetricsSuffix))

RECURSIVE ReadDigits(_)
ReadDigits(s) ==
    IF s = <<>> THEN 0
    ELSE ReadDigits(SubSeq(s, 1, Len(s) - 1)) * 10 + DigitVal(s[Len(s)])

\* pd.read_csv on a cell of the power_watt column: the integer it spells
ReadNumber(s) == IF s # <<>> /\ Head(s) = "-" THEN 0 - ReadDigits(Tail(s)) ELSE ReadDigits(s)

\* devices_data[device_id] = {...}: the entry is replaced or added last
DictSet(d, entry) ==
    IF HasKey(d, entry.key)
    THEN [d EXCEPT ![IndexOf(d, entry.key)] = entry]
    ELSE Append(d, entry)

\* lines 54-63: what one file gives
ReadFile(file) ==
    [key |-> DeviceIdOf(file.name),
     timestamps |-> [k \in 1..Len(file.rows) |-> ToDatetime(file.rows[k][1])],
     power_watts |-> [k \in 1..Len(file.rows) |-> ReadNumber(file.rows[k][2])]]

RECURSIVE ReadFiles(_, _)
\* the loop of lines 52-63 over the files, in the order glob returned them
ReadFiles(csv_files, n) ==
    IF n = 0 THEN <<>>
    ELSE DictSet(ReadFiles(csv_files, n - 1), ReadFile(csv_files[n]))

\* load_data_from_csv on the files of a finished extraction, in any order
\* glob can return them; main leaves with exit code 1 when there is none
load_data_from_csv ==
    /\ prog = "extract"
    /\ pc = "done"
    /\ prog' = "plot_csv"
    /\ LET found == SelectSeq(files, LAMBDA f : MatchesPattern(f.name))
           n == Len(found)
       IN IF n = 0
          THEN /\ devices_data' = <<>>
               /\ pc' = "exit1"
          ELSE /\ \E order \in {p \in [1..n -> 1..n] : \A a, b \in 1..n : a # b => p[a] # p[b]} :
                     devices_data' = ReadFiles([k \in 1..n |-> found[order[k]]], n)
               /\ pc' = "loaded"
    /\ UNCHANGED <<data, i, grouped_data, devices, files, plots, warnings, error,
                   timestamps, power_values>>

----------------------------------------------------------------------------
(* chirop/json_to_csv.py *)

\* os.path.splitext(json_file)[0] of the file being converted
BaseName == <<"m">>

\* f"{base_name}_{device_id}.csv"
ChiropCsvFile(device_id) == BaseName \o <<"_">> \o Format(device_id) \o <<".", "c", "s", "v">>

\* json_to_csv, lines 23-26: json.load, then len(data) in the message
chirop_load ==
    /\ prog = "chirop_csv"
    /\ pc = "load"
    /\ IF HasLen(data)
       THEN pc' = "group" /\ error' = error
       ELSE Raise("TypeError")
    /\ UNCHANGED <<prog, data, i, grouped_data, devices, devices_data, files,
                   plots, warnings, timestamps, power_values>>

\* json_to_csv, lines 29-34: one iteration of the grouping loop; at its end
\* ', '.join(devices_data.keys()) raises when a key is not a str
chirop_group ==
    /\ prog = "chirop_csv"
    /\ pc = "group"
    /\ IF i > Len(data.items)
       THEN /\ IF \E k \in 1..Len(devices_data) : devices_data[k].key.tag # "str"
               THEN Raise("TypeError") /\ i' = i
               ELSE pc' = "write" /\ i' = 1 /\ error' = error
            /\ UNCHANGED devices_data
       ELSE LET entry == data.items[i] IN
            IF entry.kind # "dict"
            THEN /\ Raise("TypeError")
                 /\ UNCHANGED <<i, devices_data>>
            ELSE IF entry.device_id.tag = "absent"
            THEN /\ Raise("KeyError")
                 /\ UNCHANGED <<i, devices_data>>
            ELSE /\ devices_data' = DictAppend(devices_data, entry.device_id, entry)
                 /\ i' = i + 1
                 /\ UNCHANGED <<pc, error>>
    /\ UNCHANGED <<prog, data, grouped_data, devices, files, plots, warnings,
                   timestamps, power_values>>

AbsIdentity(n) == n

\* abs(x) of an int
Abs(n) == IF n < 0 THEN -n ELSE n

\* building the row of lines 54-59 raises: entry['timestamp'] or
\* entry['value'] is missing (KeyError), or abs(None) (TypeError)
RowError(entry) ==
    IF entry.timestamp.tag = "absent" \/ entry.value.tag = "absent" THEN "KeyError"
    ELSE IF entry.value.tag # "num" THEN "TypeError"
    ELSE "none"

ChiropRowAbsOnly(entry) ==
    <<Cell(entry.timestamp), Cell(entry.device_id), IntStr(Abs(entry.value.n)),
      IntStr(Abs(entry.value.n))>>

\* the row of lines 54-59, as csv.writer formats it
ChiropRow(entry) ==
    <<Cell(entry.timestamp), Cell(entry.device_id), Cell(entry.value),
      IntStr(Abs(entry.value.n))>>

\* the index of the first entry whose row cannot be built, 0 when there is none
FirstBad(entries) ==
    IF \E k \in 1..Len(entries) : RowError(entries[k]) # "none"
    THEN CHOOSE k \in 1..Len(entries) :
            /\ RowError(entries[k]) # "none"
            /\ \A m \in 1..(k - 1) : RowError(entries[m]) = "none"
    ELSE 0

\* json_to_csv, lines 41-64: one device: the file is opened, the header and
\* the rows are written one by one until a row raises
chirop_write ==
    /\ prog = "chirop_csv"
    /\ pc = "write"
    /\ IF i > Len(devices_data)
       THEN /\ pc' = "done"
            /\ UNCHANGED <<i, files, error>>
       ELSE LET entries == devices_data[i].records
                csv_file == ChiropCsvFile(devices_data[i].key)
                bad == FirstBad(entries)
            IN IF bad # 0
               THEN /\ files' = WriteFile(files, csv_file,
                                  [k \in 1..(bad - 1) |-> ChiropRow(entries[k])])
                    /\ Raise(RowError(entries[bad]))
                    /\ i' = i
               ELSE /\ files' = WriteFile(files, csv_file,
                                  [k \in 1..Len(entries) |-> ChiropRow(entries[k])])
                    /\ i' = i + 1
                    /\ UNCHANGED <<pc, error>>
    /\ UNCHANGED <<prog, data, grouped_data, devices, devices_data, plots,
                   warnings, timestamps, power_values>>

----------------------------------------------------------------------------
(* chirop/plot_chirop5_power.py and plot_chirop5_timewindow.py: load_chirop5_data *)

\* load_chirop5_data, lines 55-56: json.load
chirop5_load ==
    /\ prog = "chirop_plot"
    /\ pc = "load"
    /\ pc' = "group"
    /\ UNCHANGED <<prog, data, i, grouped_data, devices, devices_data, files,
                   plots, warnings, error, timestamps, power_values>>

\* datetime.fromisoformat(entry['timestamp']) raises: the key is missing, the
\* value is None, or the text is no ISO date
FromIsoError(timestamp) ==
    IF timestamp.tag = "absent" THEN "KeyError"
    ELSE IF timestamp.tag # "str" THEN "TypeError"
    ELSE IF timestamp.s = <<>> THEN "ValueError"
    ELSE "none"

\* abs(entry['value']) raises: the key is missing, or the value is None
AbsError(value) ==
    IF value.tag = "absent" THEN "KeyError"
    ELSE IF value.tag # "num" THEN "TypeError"
    ELSE "none"

\* load_chirop5_data, lines 61-71: one iteration of the loop, or the return
load_chirop5_data ==
    /\ prog = "chirop_plot"
    /\ pc = "group"
    /\ IF ~HasLen(data)
       THEN /\ Raise("TypeError")
            /\ UNCHANGED <<i, timestamps, power_values>>
       ELSE IF i > Len(data.items)
       THEN /\ pc' = "done"
            /\ UNCHANGED <<i, timestamps, power_values, error>>
       ELSE LET entry == data.items[i] IN
            IF entry.kind # "dict"
            THEN /\ Raise("TypeError")
                 /\ UNCHANGED <<i, timestamps, power_values>>
            ELSE IF entry.device_id.tag = "absent"
            THEN /\ Raise("KeyError")
                 /\ UNCHANGED <<i, timestamps, power_values>>
            ELSE IF entry.device_id # Chirop5
            THEN /\ i' = i + 1
                 /\ UNCHANGED <<pc, error, timestamps, power_values>>
            ELSE IF FromIsoError(entry.timestamp) # "none"
            THEN /\ Raise(FromIsoError(entry.timestamp))
                 /\ UNCHANGED <<i, timestamps, power_values>>
            ELSE IF AbsError(entry.value) # "none"
            THEN /\ timestamps' = Append(timestamps, ToDatetime(entry.timestamp.s))
                 /\ Raise(AbsError(entry.value))
                 /\ UNCHANGED <<i, power_values>>
            ELSE /\ timestamps' = Append(timestamps, ToDatetime(entry.timestamp.s))
                 /\ power_values' = Append(power_values, Abs(entry.value.n))
                 /\ i' = i + 1
                 /\ UNCHANGED <<pc, error>>
    /\ UNCHANGED <<prog, data, grouped_data, devices, devices_data, files,
                   plots, warnings>>

----------------------------------------------------------------------------
(* chirop/plot_chirop5_power.py: load_config_info *)

\* the lines a configuration dump is made of
ConfigLines ==
    {"name: package-0", "name: dram", "  name: long_term", "  name: short_term",
     "  power_limit_uw: 15000000", "  power_limit_uw: 7000000",
     "  power_limit_uw: abc"}

\* marker in line, for the lines of ConfigLines and of TimeWindowLines
Contains(line, marker) ==
    <<line, marker>> \in
        {<<"name: package-0", "name: package-">>,
         <<"name: dram", "name: dram">>,
         <<"  name: long_term", "long_term">>,
         <<"  power_limit_uw: 15000000", "power_limit_uw:">>,
         <<"  power_limit_uw: 7000000", "power_limit_uw:">>,
         <<"  power_limit_uw: abc", "power_limit_uw:">>,
         <<"name: package-0", "name: package-0">>,
         <<"name: package-1", "name: package-">>,
         <<"  name: long_term", "name: long_term">>,
         <<"  time_window_us: 8000", "time_window_us:">>,
         <<"  time_window_us: 976", "time_window_us:">>,
         <<"  time_window_us: abc", "time_window_us:">>}

\* int(line.split(':')[1].strip()) raises ValueError on this line
IntRaises(line) == line = "  power_limit_uw: abc"

\* int(line.split(':')[1].strip()), for the lines it accepts
IntOf(line) ==
    IF line = "  power_limit_uw: 15000000" THEN 15000000
    ELSE IF line = "  power_limit_uw: 7000000" THEN 7000000
    ELSE 0

MicroPerUnit == 1000000

\* a limit that was not found: None
NoLimit == [tag |-> "none", num |-> 0, den |-> 1]

\* the division by 1e3 for 1e6
WattsPerMilli(n) == [tag |-> "float", num |-> n, den |-> 1000]

\* n / 1e6: the float, kept as the exact quotient num / den
Watts(n) == [tag |-> "float", num |-> n, den |-> MicroPerUnit]

\* lines[i - 1] for the index i of enumerate (from 0): index -1 is the last
\* line of the list
PrevLine(ls, idx) == IF idx = 0 THEN ls[Len(ls)] ELSE ls[idx]

\* a power limit is read on this line
Recognised(ls, idx) ==
    /\ Contains(ls[idx + 1], "power_limit_uw:")
    /\ Contains(PrevLine(ls, idx), "long_term")

StoreLimitLast(inf, dram, zone, value) ==
    IF dram THEN [inf EXCEPT !.dram_limit = value]
    ELSE IF zone = "package" THEN [inf EXCEPT !.package_limit = value]
    ELSE inf

\* lines 108-111: the first limit of each type is kept
StoreLimit(inf, dram, zone, value) ==
    IF dram /\ inf.dram_limit = NoLimit
    THEN [inf EXCEPT !.dram_limit = value]
    ELSE IF zone = "package" /\ inf.package_limit = NoLimit
    THEN [inf EXCEPT !.package_limit = value]
    ELSE inf

\* lines 98-103: the zone after this line
ZoneAfter(line, zone) ==
    IF Contains(line, "name: package-") THEN "package"
    ELSE IF Contains(line, "name: dram") THEN "dram"
    ELSE zone

\* the flag is not cleared on a package marker
InDramSticky(line, dram) ==
    IF Contains(line, "name: dram") THEN TRUE ELSE dram

\* lines 98-103: the in_dram flag after this line
InDramAfter(line, dram) ==
    IF Contains(line, "name: package-") THEN FALSE
    ELSE IF Contains(line, "name: dram") THEN TRUE
    ELSE dram

ConfigInit ==
    /\ file_exists \in BOOLEAN
    /\ lines \in (IF file_exists THEN SeqsUpTo(ConfigLines, MaxLines) ELSE {<<>>})
    /\ li = 0
    /\ current_zone = "None"
    /\ in_dram = FALSE
    /\ info = [package_limit |-> NoLimit, dram_limit |-> NoLimit]
    /\ cpc = "open"
    /\ caught = "none"

\* lines 89-91: open and readlines; a missing file is caught by the except
config_open ==
    /\ cpc = "open"
    /\ IF file_exists
       THEN cpc' = "scan" /\ caught' = caught
       ELSE cpc' = "returned" /\ caught' = "FileNotFoundError"
    /\ UNCHANGED <<lines, file_exists, li, current_zone, in_dram, info>>

\* lines 96-117: one iteration of the loop; an exception leaves the loop for
\* the except clause and the return, the end of the list for the return
config_scan ==
    /\ cpc = "scan"
    /\ IF li >= Len(lines)
       THEN /\ cpc' = "returned"
            /\ UNCHANGED <<li, current_zone, in_dram, info, caught>>
       ELSE LET line == lines[li + 1]
                zone == ZoneAfter(line, current_zone)
                dram == InDramAfter(line, in_dram)
            IN /\ current_zone' = zone
               /\ in_dram' = dram
               /\ IF Recognised(lines, li)
                  THEN IF IntRaises(line)
                       THEN /\ caught' = "ValueError"
                            /\ cpc' = "returned"
                            /\ UNCHANGED <<li, info>>
                       ELSE /\ info' = StoreLimit(info, dram, zone, Watts(IntOf(line)))
                            /\ li' = li + 1
                            /\ UNCHANGED <<cpc, caught>>
                  ELSE /\ li' = li + 1
                       /\ UNCHANGED <<cpc, caught, info>>
    /\ UNCHANGED <<lines, file_exists>>

----------------------------------------------------------------------------
(* chirop/plot_chirop5_timewindow.py: load_timewindow_info *)

\* the lines a configuration dump is made of, as far as the time window goes
TimeWindowLines ==
    {"name: package-0", "name: package-1", "  name: long_term",
     "  name: short_term", "  time_window_us: 8000", "  time_window_us: 976",
     "  time_window_us: abc"}

TimeNeverRaises(line) == FALSE

\* line 104: int(line.split(':')[1].strip()) raises ValueError on this line
TimeRaises(line) == line = "  time_window_us: abc"

\* line 104: int(line.split(':')[1].strip()), for the lines it accepts
TimeOf(line) ==
    IF line = "  time_window_us: 8000" THEN 8000
    ELSE IF line = "  time_window_us: 976" THEN 976
    ELSE 0

MicroPerMilli == 1000

\* the int time_us
Micros(n) == [tag |-> "int", num |-> n, den |-> 1]

\* time_us / 1000.0: the float, kept as the exact quotient num / den
Millis(n) == [tag |-> "float", num |-> n, den |-> MicroPerMilli]

\* lines 81-84: the dict before anything is found
NoWindow == [time_window_us |-> NoLimit, time_window_ms |-> NoLimit]

SelectedAnywhere(found, line) == Contains(line, "time_window_us:")

\* line 103: the line the value is read from
Selected(found, line) == found /\ Contains(line, "time_window_us:")

StoreMicrosOnly(inf, time_us) == [inf EXCEPT !.time_window_us = Micros(time_us)]

\* lines 105-106: both entries are set from time_us
StoreWindow(inf, time_us) ==
    [inf EXCEPT !.time_window_us = Micros(time_us),
                !.time_window_ms = Millis(time_us)]

TimeWindowInit ==
    /\ file_exists \in BOOLEAN
    /\ lines \in (IF file_exists THEN SeqsUpTo(TimeWindowLines, MaxLines) ELSE {<<>>})
    /\ li = 0
    /\ in_package = FALSE
    /\ found_long_term = FALSE
    /\ info = NoWindow
    /\ cpc = "open"
    /\ caught = "none"
    /\ current_zone = "None"
    /\ in_dram = FALSE

\* lines 87-88: open and readlines; a missing file is caught by the except
timewindow_open ==
    /\ cpc = "open"
    /\ IF file_exists
       THEN cpc' = "scan" /\ caught' = caught
       ELSE cpc' = "returned" /\ caught' = "FileNotFoundError"
    /\ UNCHANGED <<lines, file_exists, li, in_package, found_long_term, info,
                   current_zone, in_dram>>

\* lines 94-116: one iteration of the loop; the break and an exception both
\* leave the loop for the return, as does the end of the list
load_timewindow_info ==
    /\ cpc = "scan"
    /\ IF li >= Len(lines)
       THEN /\ cpc' = "returned"
            /\ UNCHANGED <<li, in_package, found_long_term, info, caught>>
       ELSE LET line == lines[li + 1]
            IN IF Contains(line, "name: package-0")
               THEN /\ in_package' = TRUE
                    /\ li' = li + 1
                    /\ UNCHANGED <<found_long_term, info, cpc, caught>>
               ELSE IF in_package /\ Contains(line, "name: long_term")
               THEN /\ found_long_term' = TRUE
                    /\ li' = li + 1
                    /\ UNCHANGED <<in_package, info, cpc, caught>>
               ELSE IF Selected(found_long_term, line)
               THEN IF TimeRaises(line)
                    THEN /\ caught' = "ValueError"
                         /\ cpc' = "returned"
                         /\ UNCHANGED <<li, in_package, found_long_term, info>>
                    ELSE /\ info' = StoreWindow(info, TimeOf(line))
                         /\ cpc' = "returned"
                         /\ UNCHANGED <<li, in_package, found_long_term, caught>>
               ELSE /\ li' = li + 1
                    /\ UNCHANGED <<in_package, found_long_term, info, cpc, caught>>
    /\ UNCHANGED <<lines, file_exists, current_zone, in_dram>>

----------------------------------------------------------------------------
(* The metrics scripts, each run on one document *)

Programs == {"extract", "simple", "plot", "chirop_csv", "chirop_plot"}

\* add_machine_profile.py does not run
ProfileIdle ==
    /\ sys_argv = <<>>
    /\ response = "None"
    /\ profile = "None"
    /\ config_file = [kind |-> "absent", entries |-> <<>>]

\* the configuration parser is not called in these runs
ConfigIdle ==
    /\ lines = <<>>
    /\ file_exists = TRUE
    /\ li = 0
    /\ current_zone = "None"
    /\ in_dram = FALSE
    /\ info = [package_limit |-> NoLimit, dram_limit |-> NoLimit]
    /\ cpc = "idle"
    /\ caught = "none"
    /\ in_package = FALSE
    /\ found_long_term = FALSE
    /\ exists = <<>>
    /\ missing = 0
    /\ config_results = <<>>
    /\ ProfileIdle

Init ==
    /\ prog \in Programs
    /\ MetricsInit
    /\ ConfigIdle

Next ==
    \/ (load_json_data /\ UNCHANGED configVars)
    \/ (extract_and_group_data /\ UNCHANGED configVars)
    \/ (write_csv_files /\ UNCHANGED configVars)
    \/ (simple_load /\ UNCHANGED configVars)
    \/ (simple_group /\ UNCHANGED configVars)
    \/ (simple_write /\ UNCHANGED configVars)
    \/ (plot_load /\ UNCHANGED configVars)
    \/ (load_data_from_json /\ UNCHANGED configVars)
    \/ (create_power_plot /\ UNCHANGED configVars)
    \/ (chirop_load /\ UNCHANGED configVars)
    \/ (chirop_group /\ UNCHANGED configVars)
    \/ (chirop_write /\ UNCHANGED configVars)
    \/ (chirop5_load /\ UNCHANGED configVars)
    \/ (load_chirop5_data /\ UNCHANGED configVars)
    \/ (load_data_from_csv /\ UNCHANGED configVars)

Spec == Init /\ [][Next]_vars

----------------------------------------------------------------------------
(* load_config_info, called on one configuration file *)

\* no metrics script runs in these runs
MetricsIdle ==
    /\ prog = "config"
    /\ data = [kind |-> "null", items |-> <<>>]
    /\ pc = "idle"
    /\ i = 1
    /\ grouped_data = <<>>
    /\ devices = <<>>
    /\ devices_data = <<>>
    /\ files = <<>>
    /\ plots = <<>>
    /\ warnings = 0
    /\ error = "none"
    /\ timestamps = <<>>
    /\ power_values = <<>>

ConfigStart ==
    /\ MetricsIdle
    /\ ConfigInit
    /\ in_package = FALSE
    /\ found_long_term = FALSE
    /\ exists = <<>>
    /\ missing = 0
    /\ config_results = <<>>
    /\ ProfileIdle

ConfigNext ==
    \/ (config_open /\ UNCHANGED <<metricVars, timewindowVars, mainVars, profileVars>>)
    \/ (config_scan /\ UNCHANGED <<metricVars, timewindowVars, mainVars, profileVars>>)

ConfigSpec == ConfigStart /\ [][ConfigNext]_vars

----------------------------------------------------------------------------
(* load_timewindow_info, called on one configuration file *)

TimeWindowStart ==
    /\ MetricsIdle
    /\ TimeWindowInit
    /\ exists = <<>>
    /\ missing = 0
    /\ config_results = <<>>
    /\ ProfileIdle

TimeWindowNext ==
    \/ (timewindow_open /\ UNCHANGED <<metricVars, mainVars, profileVars>>)
    \/ (load_timewindow_info /\ UNCHANGED <<metricVars, mainVars, profileVars>>)

TimeWindowSpec == TimeWindowStart /\ [][TimeWindowNext]_vars

----------------------------------------------------------------------------
(* chirop/plot_chirop5_power.py and plot_chirop5_timewindow.py: main and the
   chart functions it calls *)

\* the three experiments: data_files[k] and config_files[k], k = 1..3; in
\* data_files + config_files the configuration file of experiment k is k + 3
NumExperiments == 3

\* what load_chirop5_data does on a data file that exists: it raises
\* (a record without its fields, C4), or returns its lists, empty or not
DataOutcomes == {"raises", "empty", "points"}

\* what load_config_info can return (a limit of 0 uW gives 0.0)
ConfigResults ==
    {[package_limit |-> p, dram_limit |-> d] :
        p \in {NoLimit, Watts(0), Watts(15000000)}, d \in {NoLimit, Watts(7000000)}}

\* what load_timewindow_info can return
TimeWindowResults == {NoWindow, StoreWindow(NoWindow, 976), StoreWindow(NoWindow, 8000)}

\* a file is taken as present whatever os.path.exists says
MissingNever(f) == FALSE

\* if not os.path.exists(f)
Missing(f) == ~exists[f]

\* bool(x) of None or a float
FloatTruthy(x) == x # NoLimit /\ x.num # 0

LegendLabelsBoth(config_info) ==
    <<[category |-> "Package", limit |-> config_info.package_limit],
      [category |-> "DRAM", limit |-> config_info.dram_limit]>>

\* plot_power_curves, lines 151-155: the labels of one subplot
LegendLabels(config_info) ==
    (IF FloatTruthy(config_info.package_limit)
     THEN <<[category |-> "Package", limit |-> config_info.package_limit]>>
     ELSE <<>>)
    \o (IF FloatTruthy(config_info.dram_limit) /\ config_info.dram_limit.num > 0
        THEN <<[category |-> "DRAM", limit |-> config_info.dram_limit]>>
        ELSE <<>>)

RECURSIVE PackageLegend(_)
\* plot_combined_view: one legend element per experiment with a package limit
PackageLegend(configs) ==
    IF configs = <<>> THEN <<>>
    ELSE PackageLegend(SubSeq(configs, 1, Len(configs) - 1))
         \o (IF FloatTruthy(configs[Len(configs)].package_limit)
             THEN <<[category |-> "Package", limit |-> configs[Len(configs)].package_limit]>>
             ELSE <<>>)

RECURSIVE TimeWindowLegend(_)
\* plot_timewindow_comparison: one legend element per experiment with a window
TimeWindowLegend(windows) ==
    IF windows = <<>> THEN <<>>
    ELSE TimeWindowLegend(SubSeq(windows, 1, Len(windows) - 1))
         \o (IF FloatTruthy(windows[Len(windows)].time_window_ms)
             THEN <<[category |-> "TW", limit |-> windows[Len(windows)].time_window_ms]>>
             ELSE <<>>)

\* the two savefig calls: the PDF, then the PNG of the same name
SaveFigure(fs, pdf, png) == fs \o <<pdf, png>>

MainInit ==
    /\ prog \in {"power_main", "timewindow_main"}
    /\ pc = "check"
    /\ i = 1
    /\ exists \in [1..(2 * NumExperiments) -> BOOLEAN]
    /\ missing = 0
    /\ config_results = <<>>
    /\ plots = <<>>
    /\ files = <<>>
    /\ error = "none"
    /\ data = [kind |-> "null", items |-> <<>>]
    /\ grouped_data = <<>>
    /\ devices = <<>>
    /\ devices_data = <<>>
    /\ warnings = 0
    /\ timestamps = <<>>
    /\ power_values = <<>>

\* main: one iteration of the loop over data_files + config_files; the first
\* missing file is reported and main returns
main_check ==
    /\ prog \in {"power_main", "timewindow_main"}
    /\ pc = "check"
    /\ IF i > 2 * NumExperiments
       THEN /\ pc' = IF prog = "power_main" THEN "separate" ELSE "comparison"
            /\ i' = 1
            /\ missing' = missing
       ELSE IF Missing(i)
       THEN /\ missing' = i
            /\ pc' = "returned"
            /\ i' = i
       ELSE /\ i' = i + 1
            /\ UNCHANGED <<pc, missing>>
    /\ UNCHANGED <<prog, data, grouped_data, devices, devices_data, files, plots,
                   warnings, error, timestamps, power_values, exists, config_results>>

\* a curve handed to ax.plot, with the legend of its subplot
Curve(chart, idx, points, legend) ==
    [chart |-> chart, idx |-> idx, points |-> points, legend |-> legend]

\* ax.legend(handles=legend_elements) of a chart with one axis, called only
\* when there is an element
AxisLegend(ps, chart, legend) ==
    IF legend = <<>> THEN ps ELSE Append(ps, Curve(chart, 0, "none", legend))

\* plot_power_curves: one iteration of the loop over the experiments
\* (load_chirop5_data, load_config_info, ax.plot, the legend), or the two
\* savefig calls after the loop
plot_power_curves ==
    /\ prog = "power_main"
    /\ pc = "separate"
    /\ IF i > NumExperiments
       THEN /\ files' = SaveFigure(files, "chirop5_power_separate.pdf",
                                   "chirop5_power_separate.png")
            /\ pc' = "combined"
            /\ i' = 1
            /\ UNCHANGED <<plots, config_results, error>>
       ELSE \E outcome \in DataOutcomes :
              IF outcome = "raises"
              THEN /\ Raise("KeyError")
                   /\ UNCHANGED <<i, plots, config_results, files>>
              ELSE \E config_info \in ConfigResults :
                     /\ plots' = Append(plots, Curve("separate", i, outcome,
                                                     LegendLabels(config_info)))
                     /\ config_results' = Append(config_results, config_info)
                     /\ i' = i + 1
                     /\ UNCHANGED <<pc, error, files>>
    /\ UNCHANGED <<prog, data, grouped_data, devices, devices_data, warnings,
                   timestamps, power_values, exists, missing>>

\* plot_combined_view: one iteration of its loop, on the same files (they
\* give what they gave to plot_power_curves), or the legend and the two
\* savefig calls after the loop
plot_combined_view ==
    /\ prog = "power_main"
    /\ pc = "combined"
    /\ IF i > NumExperiments
       THEN /\ plots' = AxisLegend(plots, "combined", PackageLegend(config_results))
            /\ files' = SaveFigure(files, "chirop5_power_combined.pdf",
                                   "chirop5_power_combined.png")
            /\ pc' = "returned"
            /\ i' = i
       ELSE /\ plots' = Append(plots, Curve("combined", i, plots[i].points, <<>>))
            /\ i' = i + 1
            /\ UNCHANGED <<pc, files>>
    /\ UNCHANGED <<prog, data, grouped_data, devices, devices_data, warnings, error,
                   timestamps, power_values, exists, missing, config_results>>

\* plot_timewindow_comparison: one iteration of its loop (load_chirop5_data,
\* load_timewindow_info, ax.plot), or the legend and the two savefig calls
plot_timewindow_comparison ==
    /\ prog = "timewindow_main"
    /\ pc = "comparison"
    /\ IF i > NumExperiments
       THEN /\ plots' = AxisLegend(plots, "comparison", TimeWindowLegend(config_results))
            /\ files' = SaveFigure(files, "chirop5_timewindow_comparison.pdf",
                                   "chirop5_timewindow_comparison.png")
            /\ pc' = "returned"
            /\ UNCHANGED <<i, config_results, error>>
       ELSE \E outcome \in DataOutcomes :
              IF outcome = "raises"
              THEN /\ Raise("KeyError")
                   /\ UNCHANGED <<i, plots, config_results, files>>
              ELSE \E tw_info \in TimeWindowResults :
                     /\ plots' = Append(plots, Curve("comparison", i, outcome, <<>>))
                     /\ config_results' = Append(config_results, tw_info)
                     /\ i' = i + 1
                     /\ UNCHANGED <<pc, error, files>>
    /\ UNCHANGED <<prog, data, grouped_data, devices, devices_data, warnings,
                   timestamps, power_values, exists, missing>>

\* the configuration parsers are called inside the chart functions
MainStart ==
    /\ MainInit
    /\ lines = <<>>
    /\ file_exists = TRUE
    /\ li = 0
    /\ current_zone = "None"
    /\ in_dram = FALSE
    /\ info = [package_limit |-> NoLimit, dram_limit |-> NoLimit]
    /\ cpc = "idle"
    /\ caught = "none"
    /\ in_package = FALSE
    /\ found_long_term = FALSE
    /\ ProfileIdle

parserVars == <<lines, file_exists, li, current_zone, in_dram, info, cpc, caught,
                in_package, found_long_term>>

MainNext ==
    \/ (main_check /\ UNCHANGED <<parserVars, profileVars>>)
    \/ (plot_power_curves /\ UNCHANGED <<parserVars, profileVars>>)
    \/ (plot_combined_view /\ UNCHANGED <<parserVars, profileVars>>)
    \/ (plot_timewindow_comparison /\ UNCHANGED <<parserVars, profileVars>>)

MainSpec == MainStart /\ [][MainNext]_vars

----------------------------------------------------------------------------
(* enoslib/add_machine_profile.py *)

MaxArgs == 3

MaxEntries == 2

\* cluster and site names given on the command line
Names == {"a", "b"}

\* what lscpu gives: a machine with every field, one without the optional
\* fields, and an output without 'Socket(s):'
CpuInfos ==
    {[cpu_threads |-> 8, threads_per_core |-> 2, cores_per_socket |-> 4,
      sockets |-> 1, cpu_model |-> "Xeon", cpu_max_mhz |-> 3500, cpu_min_mhz |-> 1000],
     [cpu_threads |-> 64, threads_per_core |-> 2, cores_per_socket |-> 16,
      sockets |-> 2, cpu_model |-> "absent", cpu_max_mhz |-> 0, cpu_min_mhz |-> 0],
     [cpu_threads |-> 8, threads_per_core |-> 2, cores_per_socket |-> 4,
      sockets |-> 0, cpu_model |-> "absent", cpu_max_mhz |-> 0, cpu_min_mhz |-> 0]}

\* info['cores_per_socket'] * info['sockets'] raises KeyError
CpuInfoRaises(cpu_info) == cpu_info.sockets = 0

\* what free -g gives
MemoryGbs == {16, 300, 500}

\* create_profile
CreateProfile(cluster_name, site_name, cpu_info, memory_gb) ==
    [cluster |-> cluster_name,
     site |-> site_name,
     cpu_threads |-> cpu_info.cpu_threads,
     cpu_cores |-> cpu_info.cores_per_socket * cpu_info.sockets,
     sockets |-> cpu_info.sockets,
     threads_per_core |-> cpu_info.threads_per_core,
     memory_gb |-> memory_gb,
     cpu_model |-> IF cpu_info.cpu_model = "absent" THEN "Unknown" ELSE cpu_info.cpu_model,
     cpu_base_mhz |-> IF cpu_info.cpu_min_mhz = 0 THEN 2000 ELSE cpu_info.cpu_min_mhz,
     cpu_max_mhz |-> IF cpu_info.cpu_max_mhz = 0 THEN 3000 ELSE cpu_info.cpu_max_mhz,
     stress_cpu_threads |-> cpu_info.cpu_threads,
     stress_vm_workers |-> (cpu_info.cores_per_socket * cpu_info.sockets) \div 2,
     stress_vm_memory |-> IF memory_gb >= 500 THEN "80%"
                          ELSE IF memory_gb >= 300 THEN "75%" ELSE "70%",
     cpu_method |-> "matrixprod"]

\* the profiles a configuration file already holds
StoredProfiles ==
    {CreateProfile(c, "a", CHOOSE m \in CpuInfos : m.cpu_threads = 64, 16) : c \in Names}

\* the members of a JSON object as they stand in the file: a name can occur
\* twice
Members == SeqsUpTo([key : Names, value : StoredProfiles], MaxEntries)

\* the file: absent (with or without the configs directory), a JSON object,
\* a JSON array, or text that is no JSON
ConfigFiles ==
    {[kind |-> k, entries |-> <<>>] : k \in {"absent", "nodir", "array", "invalid"}}
    \cup {[kind |-> "object", entries |-> m] : m \in Members}

ReplaceAll(d, key, value) == <<[key |-> key, value |-> value]>>

\* d[key] = value on a dict: the value is replaced in place, or the key is
\* added last
SetItem(d, key, value) ==
    IF HasKey(d, key)
    THEN [d EXCEPT ![IndexOf(d, key)].value = value]
    ELSE Append(d, [key |-> key, value |-> value])

RECURSIVE JsonLoadObject(_)
\* json.load of an object: a dict; of a name that occurs twice the last value
\* is kept, at the place of the first
JsonLoadObject(members) ==
    IF members = <<>> THEN <<>>
    ELSE SetItem(JsonLoadObject(SubSeq(members, 1, Len(members) - 1)),
                 members[Len(members)].key, members[Len(members)].value)

\* json.dump of a dict: one member per key, in the order of the dict
JsonDumpObject(config) == [kind |-> "object", entries |-> config]

\* what input() can return; end of input raises EOFError
Responses ==
    {<<"y">>, <<"Y">>, <<"n">>, <<>>, <<"y", "e", "s">>, <<"Y", "E", "S">>, <<" ", "y">>}

\* str.lower of one character
LowerChar(c) ==
    IF c = "Y" THEN "y" ELSE IF c = "E" THEN "e" ELSE IF c = "S" THEN "s" ELSE c

\* response.lower()
Lower(s) == [k \in 1..Len(s) |-> LowerChar(s[k])]

ConfirmedByFirstLetter(r) == r # <<>> /\ LowerChar(r[1]) = "y"

\* if response.lower() == 'y'
Confirmed(r) == Lower(r) = <<"y">>

ProfileInit ==
    /\ prog = "add_profile"
    /\ pc = "start"
    /\ sys_argv \in {<<"add_machine_profile.py">> \o args : args \in SeqsUpTo(Names, MaxArgs)}
    /\ response = "None"
    /\ profile = "None"
    /\ config_file \in ConfigFiles
    /\ files = <<>>
    /\ error = "none"
    /\ i = 1
    /\ data = [kind |-> "null", items |-> <<>>]
    /\ grouped_data = <<>>
    /\ devices = <<>>
    /\ devices_data = <<>>
    /\ plots = <<>>
    /\ warnings = 0
    /\ timestamps = <<>>
    /\ power_values = <<>>

\* main, lines 99-102: the usage message and sys.exit(1)
main_usage ==
    /\ prog = "add_profile"
    /\ pc = "start"
    /\ pc' = IF Len(sys_argv) # 3 THEN "exit1" ELSE "detect"
    /\ UNCHANGED <<prog, data, i, grouped_data, devices, devices_data, files, plots,
                   warnings, error, timestamps, power_values, sys_argv, response,
                   profile, config_file>>

\* main, lines 104-114: get_cpu_info, get_memory_info, create_profile
main_detect ==
    /\ prog = "add_profile"
    /\ pc = "detect"
    /\ \E cpu_info \in CpuInfos, memory_gb \in MemoryGbs :
          IF CpuInfoRaises(cpu_info)
          THEN Raise("KeyError") /\ profile' = profile
          ELSE /\ profile' = CreateProfile(sys_argv[2], sys_argv[3], cpu_info, memory_gb)
               /\ pc' = "prompt"
               /\ error' = error
    /\ UNCHANGED <<prog, data, i, grouped_data, devices, devices_data, files, plots,
                   warnings, timestamps, power_values, sys_argv, response, config_file>>

\* main, lines 136-146: input() and the test of the answer
main_confirm ==
    /\ prog = "add_profile"
    /\ pc = "prompt"
    /\ \/ Raise("EOFError") /\ response' = response
       \/ \E r \in Responses :
             /\ response' = r
             /\ pc' = IF Confirmed(r) THEN "add" ELSE "cancelled"
             /\ error' = error
    /\ UNCHANGED <<prog, data, i, grouped_data, devices, devices_data, files, plots,
                   warnings, timestamps, power_values, sys_argv, profile, config_file>>

\* add_to_config, then the end of main; files records each open(..., 'w')
\* that succeeded
add_to_config ==
    /\ prog = "add_profile"
    /\ pc = "add"
    /\ IF config_file.kind = "invalid"
       THEN Raise("JSONDecodeError") /\ UNCHANGED <<config_file, files>>
       ELSE IF config_file.kind = "array"
       THEN Raise("TypeError") /\ UNCHANGED <<config_file, files>>
       ELSE IF config_file.kind = "nodir"
       THEN Raise("FileNotFoundError") /\ UNCHANGED <<config_file, files>>
       ELSE LET config == IF config_file.kind = "object"
                          THEN JsonLoadObject(config_file.entries)
                          ELSE <<>>
            IN /\ config_file' = JsonDumpObject(SetItem(config, sys_argv[2], profile))
               /\ files' = Append(files, "machine_profiles.json")
               /\ pc' = "done"
               /\ error' = error
    /\ UNCHANGED <<prog, data, i, grouped_data, devices, devices_data, plots,
                   warnings, timestamps, power_values, sys_argv, response, profile>>

ProfileStart ==
    /\ ProfileInit
    /\ lines = <<>>
    /\ file_exists = TRUE
    /\ li = 0
    /\ current_zone = "None"
    /\ in_dram = FALSE
    /\ info = [package_limit |-> NoLimit, dram_limit |-> NoLimit]
    /\ cpc = "idle"
    /\ caught = "none"
    /\ in_package = FALSE
    /\ found_long_term = FALSE
    /\ exists = <<>>
    /\ missing = 0
    /\ config_results = <<>>

ProfileNext ==
    \/ (main_usage /\ UNCHANGED <<parserVars, mainVars>>)
    \/ (main_detect /\ UNCHANGED <<parserVars, mainVars>>)
    \/ (main_confirm /\ UNCHANGED <<parserVars, mainVars>>)
    \/ (add_to_config /\ UNCHANGED <<parserVars, mainVars>>)

ProfileSpec == ProfileStart /\ [][ProfileNext]_vars

----------------------------------------------------------------------------
(* Properties *)

NoDuplicateKeys(d) == \A a, b \in 1..Len(d) : a # b => d[a].key # d[b].key

KeysFromInput(d) ==
    \A k \in 1..Len(d) : \E m \in 1..Len(data.items) :
        /\ data.items[m].kind = "dict"
        /\ data.items[m].device_id = d[k].key

\* C1: the mapping built by the grouping step of extract_and_group_data,
\* json_to_csv_simple.main and load_data_from_json never has two entries with
\* the same key, never has a key with an empty series, and each of its keys is
\* the device_id of a record of the input.
C1_GroupedMappingWellFormed ==
    /\ prog = "extract" =>
          /\ NoDuplicateKeys(grouped_data)
          /\ KeysFromInput(grouped_data)
          /\ \A k \in 1..Len(grouped_data) : grouped_data[k].records # <<>>
    /\ prog = "simple" =>
          /\ NoDuplicateKeys(devices)
          /\ KeysFromInput(devices)
          /\ \A k \in 1..Len(devices) : devices[k].records # <<>>
    /\ prog = "plot" =>
          /\ NoDuplicateKeys(devices_data)
          /\ KeysFromInput(devices_data)
          /\ \A k \in 1..Len(devices_data) :
                /\ devices_data[k].timestamps # <<>>
                /\ Len(devices_data[k].power_watts) = Len(devices_data[k].timestamps)

\* a grouping that ended with two devices and a skipped record
C1_Witness ==
    /\ prog = "extract"
    /\ pc = "write"
    /\ Len(grouped_data) = 2
    /\ warnings = 1

\* the record has the three fields the contract requires
Complete(record) ==
    /\ record.kind = "dict"
    /\ record.device_id.tag = "str" /\ record.device_id.s # <<>>
    /\ record.timestamp.tag = "str" /\ record.timestamp.s # <<>>
    /\ record.value.tag = "num"

\* the rows of the complete records of one device among the first n records
RowsOfDevice(key, n) ==
    LET kept == SelectSeq(SubSeq(data.items, 1, n),
                          LAMBDA r : Complete(r) /\ r.device_id = key)
    IN [k \in 1..Len(kept) |-> Row(kept[k].timestamp, kept[k].value)]

\* C2: while extract_and_group_data runs over an array of records, the series
\* of each device holds exactly the records seen so far that have a non-empty
\* device_id, a non-empty timestamp and a value that is present and not null
\* (a value of 0 included), in input order; a record that is skipped is
\* counted and the loop goes on: the run never ends on an exception.
C2_RetainedIffComplete ==
    (prog = "extract" /\ data.kind = "array") =>
        /\ pc # "crashed"
        /\ pc = "group" =>
              /\ \A k \in 1..Len(grouped_data) :
                    grouped_data[k].records = RowsOfDevice(grouped_data[k].key, i - 1)
              /\ \A m \in 1..(i - 1) :
                    Complete(data.items[m]) => HasKey(grouped_data, data.items[m].device_id)
              /\ warnings = Cardinality({m \in 1..(i - 1) : ~Complete(data.items[m])})

\* a record without a value is skipped, then a record whose value is 0 is kept
C2_Witness ==
    /\ prog = "extract"
    /\ pc = "write"
    /\ Len(data.items) = 2
    /\ data.items[1].value.tag = "absent"
    /\ data.items[2].value = Num(0)
    /\ Len(grouped_data) = 1
    /\ grouped_data[1].records = <<Row(T1, Num(0))>>
    /\ warnings = 1

\* C3: json_to_csv_simple.main never emits a CSV for an empty or null
\* device_id, nor a row whose timestamp is empty or null or whose value is null.
C3_SimpleEmitsOnlyComplete ==
    prog = "simple" =>
        \A f \in 1..Len(files) :
            /\ files[f].name # CsvFilename(None)
            /\ files[f].name # CsvFilename(Str(<<>>))
            /\ \A r \in 1..Len(files[f].rows) :
                  files[f].rows[r][1] # <<>> /\ files[f].rows[r][2] # <<>>

\* the number of rows in all the files
RECURSIVE TotalRows(_)
TotalRows(fs) == IF fs = <<>> THEN 0 ELSE Len(Head(fs).rows) + TotalRows(Tail(fs))

\* C4: in chirop/json_to_csv.json_to_csv and load_chirop5_data a record that
\* lacks device_id, timestamp or value is dropped and is not fatal: the run
\* does not end on an exception, and the rows and points of the other records
\* are all produced.
C4_IncompleteRecordNotFatal ==
    /\ (prog = "chirop_csv" /\ data.kind = "array") =>
          /\ pc # "crashed"
          /\ pc = "done" =>
                TotalRows(files) = Cardinality({m \in 1..Len(data.items) : Complete(data.items[m])})
    /\ (prog = "chirop_plot" /\ data.kind = "array") =>
          /\ pc # "crashed"
          /\ pc = "done" =>
                Len(power_values) =
                    Cardinality({m \in 1..Len(data.items) :
                        Complete(data.items[m]) /\ data.items[m].device_id = Chirop5})

\* C5: when the document is not an array, the run of extract_metrics_to_csv
\* and of json_to_csv_simple never completes as a successful run and writes no
\* CSV file.
C5_NonArrayIsAnError ==
    (prog \in {"extract", "simple"} /\ data.kind # "array") =>
        /\ pc # "done"
        /\ files = <<>>

\* the permutations of 1..n
Perms(n) == {p \in [1..n -> 1..n] : \A a, b \in 1..n : a # b => p[a] # p[b]}

\* out is inp rearranged in ascending order of Less, elements that Less does
\* not separate keeping the order they have in inp
IsStableSort(out, inp, Less(_, _)) ==
    /\ Len(out) = Len(inp)
    /\ \E p \in Perms(Len(inp)) :
          /\ \A k \in 1..Len(inp) : out[k] = inp[p[k]]
          /\ \A a, b \in 1..Len(inp) :
                a < b => \/ Less(inp[p[a]], inp[p[b]])
                         \/ (~Less(inp[p[b]], inp[p[a]]) /\ p[a] < p[b])

TimestampBefore(r1, r2) == StrLess(r1.timestamp.s, r2.timestamp.s)

\* the data rows of the file of that name
RowsOfFile(fs, name) == fs[CHOOSE k \in 1..Len(fs) : fs[k].name = name].rows

\* the rows are those of the series in ascending timestamp order, ties in
\* series order
RowsAreStableSort(rows, records) ==
    \E sorted \in [1..Len(records) -> {records[k] : k \in 1..Len(records)}] :
        /\ IsStableSort(sorted, records, TimestampBefore)
        /\ rows = CsvRows(sorted)

\* C6: each step of write_csv_files and of the writing loop of
\* json_to_csv_simple.main that handles a device leaves, in the file of that
\* device, the rows of all the records of its series, in ascending order of
\* the timestamp string, records with equal timestamps in input order.
C6_RowsSortedStably ==
    [][/\ (prog = "extract" /\ pc = "write" /\ i <= Len(grouped_data)) =>
              RowsAreStableSort(RowsOfFile(files', CsvFilename(grouped_data[i].key)),
                                grouped_data[i].records)
       /\ (prog = "simple" /\ pc = "write" /\ i <= Len(devices)) =>
              RowsAreStableSort(RowsOfFile(files', CsvFilename(devices[i].key)),
                                devices[i].records)]_vars

InstantBefore(p1, p2) == p1[1] < p2[1]

\* C7: the points create_power_plot draws for a device are the points of its
\* series in ascending timestamp order, points with equal timestamps in the
\* order of the series.
C7_PlotSortedStably ==
    prog = "plot" =>
        \A k \in 1..Len(plots) :
            IsStableSort(plots[k].points,
                         Zip(devices_data[k].timestamps, devices_data[k].power_watts),
                         InstantBefore)

\* C8: sorting by timestamp a series that write_csv_files has sorted leaves it
\* as it is, and so leaves the rows of its file as they are; the same holds of
\* sorted() in json_to_csv_simple.main.
C8_SortIdempotent ==
    /\ (prog = "extract" /\ pc \in {"write", "done"}) =>
          \A k \in 1..Len(grouped_data) :
              k < i =>
                 /\ SortByTimestamp(grouped_data[k].records) = grouped_data[k].records
                 /\ CsvRows(SortByTimestamp(grouped_data[k].records)) =
                       RowsOfFile(files, CsvFilename(grouped_data[k].key))
    /\ (prog = "simple" /\ pc \in {"write", "done"}) =>
          \A k \in 1..Len(devices) :
              k < i =>
                 CsvRows(SortByTimestamp(SortByTimestamp(devices[k].records))) =
                    RowsOfFile(files, CsvFilename(devices[k].key))

\* a series that arrived out of order, with two records of the same
\* timestamp, has been sorted and written
C8_Witness ==
    /\ prog = "extract"
    /\ pc = "done"
    /\ data.items = <<Dict(Chirop5, T2, Num(1)), Dict(Chirop5, T1, Num(0)),
                      Dict(Chirop5, T1, Num(-1))>>
    /\ grouped_data[1].records = <<Row(T1, Num(0)), Row(T1, Num(-1)), Row(T2, Num(1))>>

\* C9: a step of load_config_info on a line that contains 'power_limit_uw:'
\* and is not preceded by a line containing 'long_term' (the first line of
\* the file has no preceding line) sets no field and raises nothing.
C9_UnprecededLimitIgnored ==
    [][(/\ cpc = "scan"
        /\ li < Len(lines)
        /\ Contains(lines[li + 1], "power_limit_uw:")
        /\ (li = 0 \/ ~Contains(lines[li], "long_term")))
       => (info' = info /\ caught' = "none" /\ cpc' = "scan")]_vars

\* C10: once package_limit is set no step of load_config_info changes it, and
\* once dram_limit is set no step changes it.
C10_LimitsLocked ==
    [][/\ info.package_limit # NoLimit => info'.package_limit = info.package_limit
       /\ info.dram_limit # NoLimit => info'.dram_limit = info.dram_limit]_vars

\* a second limit of 7 W was recognised in the package zone after the package
\* limit was set to 15 W
C10_Witness ==
    /\ cpc = "returned"
    /\ caught = "none"
    /\ lines = <<"name: package-0", "  name: long_term", "  power_limit_uw: 15000000",
                 "  name: long_term", "  power_limit_uw: 7000000">>
    /\ info.package_limit = Watts(15000000)

\* C11: when load_config_info returns after an exception (a value that is
\* not a number, a file that cannot be opened), package_limit and dram_limit
\* are both absent.
C11_ErrorYieldsBothAbsent ==
    (cpc = "returned" /\ caught # "none") =>
        (info.package_limit = NoLimit /\ info.dram_limit = NoLimit)

\* C12: a limit that is present is the raw microwatt integer over 1,000,000;
\* for ['name: package-0', '  name: long_term', '  power_limit_uw: 15000000']
\* the package limit is 15 W and the DRAM limit is absent.
C12_MicrowattsToWatts ==
    /\ \A f \in {info.package_limit, info.dram_limit} :
          f # NoLimit => (f.den = 1000000 /\ f.num \in {15000000, 7000000})
    /\ (/\ cpc = "returned"
        /\ lines = <<"name: package-0", "  name: long_term", "  power_limit_uw: 15000000">>)
       => (/\ info.package_limit # NoLimit
           /\ info.package_limit.num = 15 * info.package_limit.den
           /\ info.dram_limit = NoLimit)

\* the three lines have been scanned
C12_Witness ==
    /\ cpc = "returned"
    /\ caught = "none"
    /\ lines = <<"name: package-0", "  name: long_term", "  power_limit_uw: 15000000">>
    /\ info.package_limit = Watts(15000000)

\* the first index after from whose line contains the marker, 0 when none
FirstAfter(ls, from, marker) ==
    IF \E k \in (from + 1)..Len(ls) : Contains(ls[k], marker)
    THEN CHOOSE k \in (from + 1)..Len(ls) :
            /\ Contains(ls[k], marker)
            /\ \A j \in (from + 1)..(k - 1) : ~Contains(ls[j], marker)
    ELSE 0

\* the first time_window_us line after a long_term line that is itself after
\* a package-0 line, 0 when there is none
SelectedIndex(ls) ==
    LET p == FirstAfter(ls, 0, "name: package-0")
        l == IF p = 0 THEN 0 ELSE FirstAfter(ls, p, "name: long_term")
    IN IF l = 0 THEN 0 ELSE FirstAfter(ls, l, "time_window_us:")

\* C13: load_timewindow_info returns the integer of the first time_window_us
\* line that follows a 'name: long_term' line that follows a
\* 'name: package-0' line; without such a line nothing is returned, whatever
\* time_window_us lines come earlier; the scan stops on that line, so the
\* lines after it neither change the result nor raise.
C13_FirstWindowAfterLongTerm ==
    (cpc = "returned" /\ file_exists) =>
        LET t == SelectedIndex(lines)
        IN IF t = 0
           THEN info = NoWindow /\ caught = "none" /\ li = Len(lines)
           ELSE /\ li = t - 1
                /\ ~TimeRaises(lines[t]) =>
                      /\ info.time_window_us = Micros(TimeOf(lines[t]))
                      /\ caught = "none"

\* an earlier time_window_us line is passed over, a later malformed one is
\* never read
C13_Witness ==
    /\ cpc = "returned"
    /\ lines = <<"  time_window_us: 976", "name: package-0", "  name: long_term",
                 "  time_window_us: 8000", "  time_window_us: abc">>
    /\ info.time_window_us = Micros(8000)

\* C14: when the file cannot be opened, or the value on the selected
\* time_window_us line is not an integer, load_timewindow_info returns with
\* time_window_us and time_window_ms both absent; the exception is caught.
C14_MalformedYieldsAbsent ==
    /\ caught # "none" => (cpc = "returned" /\ info = NoWindow)
    /\ cpc = "returned" =>
          LET t == SelectedIndex(lines)
          IN (~file_exists \/ (t # 0 /\ lines[t] = "  time_window_us: abc"))
                => (caught # "none" /\ info = NoWindow)

\* a selected line with a value that is not an integer
C14_Witness ==
    /\ cpc = "returned"
    /\ caught = "ValueError"
    /\ SelectedIndex(lines) # 0

\* C15: time_window_us and time_window_ms are both absent or both present,
\* and when present time_window_us = 1000 * time_window_ms.
C15_MicrosAndMillisAgree ==
    \/ info = NoWindow
    \/ /\ info.time_window_us.tag = "int"
       /\ info.time_window_ms.tag = "float"
       /\ info.time_window_us.num * info.time_window_ms.den
             = 1000 * info.time_window_ms.num * info.time_window_us.den

\* a window of 976 microseconds has been returned
C15_Witness ==
    /\ cpc = "returned"
    /\ info.time_window_us = Micros(976)
    /\ info.time_window_ms # NoLimit

IsChirop5(entry) == entry.kind = "dict" /\ entry.device_id = Chirop5

\* C16: load_chirop5_data returns two lists of the same length, one point
\* per record of device 'chirop-5' and none for any other record, in the order
\* of the input: the k-th timestamp and the k-th power value are those of the
\* k-th such record, the power value being the absolute value.
C16_Chirop5InSourceOrder ==
    (prog = "chirop_plot" /\ pc = "done") =>
        LET selected == SelectSeq(data.items, IsChirop5)
        IN /\ Len(timestamps) = Len(selected)
           /\ Len(power_values) = Len(selected)
           /\ \A k \in 1..Len(selected) :
                 /\ timestamps[k] = ToDatetime(selected[k].timestamp.s)
                 /\ power_values[k] >= 0
                 /\ power_values[k] \in {selected[k].value.n, 0 - selected[k].value.n}

\* a later instant before an earlier one, a negative value, another device
\* in between
C16_Witness ==
    /\ prog = "chirop_plot"
    /\ pc = "done"
    /\ data.items = <<Dict(Chirop5, T2, Num(1)), Dict(DeviceB, T1, Num(1)),
                      Dict(Chirop5, T1, Num(-1))>>
    /\ timestamps = <<2, 1>>
    /\ power_values = <<1, 1>>

RECURSIVE DigitsValue(_)
\* the natural number a string of digits denotes
DigitsValue(s) ==
    IF s = <<>> THEN 0
    ELSE DigitsValue(SubSeq(s, 1, Len(s) - 1)) * 10 + (Ord(s[Len(s)]) - Ord("0"))

\* the integer a cell denotes
CellValue(s) == IF s # <<>> /\ s[1] = "-" THEN 0 - DigitsValue(Tail(s)) ELSE DigitsValue(s)

\* C17: every row written by chirop/json_to_csv.json_to_csv has in its value
\* column the signed value of its record, unchanged, and in its value_abs
\* column a number that is never negative: value when value >= 0, -value
\* when value < 0.
C17_SignedValueAndAbs ==
    prog = "chirop_csv" =>
        \A j \in 1..Len(files) : \A k \in 1..Len(files[j].rows) :
            LET value == devices_data[j].records[k].value.n
                row == files[j].rows[k]
            IN /\ CellValue(row[3]) = value
               /\ CellValue(row[4]) >= 0
               /\ CellValue(row[4]) = (IF value >= 0 THEN value ELSE 0 - value)

\* a row of value -1 has been written
C17_Witness ==
    /\ prog = "chirop_csv"
    /\ pc = "done"
    /\ \E j \in 1..Len(files) : \E k \in 1..Len(files[j].rows) :
          /\ devices_data[j].records[k].value = Num(-1)
          /\ files[j].rows[k][3] = <<"-", "1">>
          /\ files[j].rows[k][4] = <<"1">>

\* the record passes the test of the script that runs (json_to_csv of chirop
\* has no test)
Retained(record) ==
    /\ record.kind = "dict"
    /\ prog = "extract" =>
          IsComplete(Get(record, "device_id"), Get(record, "timestamp"), Get(record, "value"))
    /\ prog = "simple" => HasAllKeys(record)

\* the file the script that runs writes for a device
FileOf(device_id) ==
    IF prog = "chirop_csv" THEN ChiropCsvFile(device_id) ELSE CsvFilename(device_id)

\* C18: when write_csv_files, chirop/json_to_csv.json_to_csv or
\* json_to_csv_simple.main has run on an array, every retained record has one
\* row in the file of its device: that file has as many rows as the device
\* has retained records, and all files together have as many rows as there
\* are retained records.
C18_RowsConserved ==
    (/\ prog \in {"extract", "simple", "chirop_csv"}
     /\ data.kind = "array"
     /\ pc \in {"done", "crashed"}) =>
        LET kept == SelectSeq(data.items, Retained)
        IN /\ TotalRows(files) = Len(kept)
           /\ \A k \in 1..Len(kept) : \E j \in 1..Len(files) :
                 /\ files[j].name = FileOf(kept[k].device_id)
                 /\ Len(files[j].rows) =
                       Cardinality({m \in 1..Len(kept) : kept[m].device_id = kept[k].device_id})

RECURSIVE InOrderOfFirstAppearance(_)
\* the distinct elements of a sequence, each at the place of its first
\* occurrence
InOrderOfFirstAppearance(s) ==
    IF s = <<>> THEN <<>>
    ELSE LET before == InOrderOfFirstAppearance(SubSeq(s, 1, Len(s) - 1))
             last == s[Len(s)]
         IN IF \E k \in 1..Len(before) : before[k] = last
            THEN before
            ELSE Append(before, last)

\* C19: chirop/json_to_csv.json_to_csv writes the device files in the order
\* in which the device_ids first appear in the input, and the rows of each
\* file are those of the device's records in input order; when the run is
\* over every device has its file and every record its row.
C19_InsertionOrderKept ==
    (prog = "chirop_csv" /\ data.kind = "array") =>
        LET ids == InOrderOfFirstAppearance(
                       [k \in 1..Len(data.items) |-> data.items[k].device_id])
        IN /\ Len(files) <= Len(ids)
           /\ pc = "done" => Len(files) = Len(ids)
           /\ \A j \in 1..Len(files) :
                 LET entries == SelectSeq(data.items,
                                          LAMBDA e : e.device_id = ids[j])
                     rows == files[j].rows
                 IN /\ files[j].name = BaseName \o <<"_">> \o ids[j].s \o <<".", "c", "s", "v">>
                    /\ Len(rows) <= Len(entries)
                    /\ pc = "done" => Len(rows) = Len(entries)
                    /\ \A k \in 1..Len(rows) :
                          /\ rows[k][1] = entries[k].timestamp.s
                          /\ rows[k][2] = ids[j].s
                          /\ CellValue(rows[k][3]) = entries[k].value.n

\* two devices interleaved, the later instant first
C19_Witness ==
    /\ prog = "chirop_csv"
    /\ pc = "done"
    /\ data.items = <<Dict(Chirop5, T2, Num(1)), Dict(DeviceB, T1, Num(1)),
                      Dict(Chirop5, T1, Num(-1))>>
    /\ Len(files) = 2
    /\ files[1].rows = <<ChiropRow(data.items[1]), ChiropRow(data.items[3])>>
    /\ files[2].rows = <<ChiropRow(data.items[2])>>

\* C20: when load_data_from_csv re-reads the files write_csv_files wrote, it
\* returns one entry per device of the grouped mapping, under the same
\* device_id, and the entry holds, row by row, the instant and the power of
\* the rows written for this device.
C20_CsvRoundTrip ==
    /\ (prog = "plot_csv" /\ pc = "exit1") => (grouped_data = <<>> /\ devices_data = <<>>)
    /\ (prog = "plot_csv" /\ pc = "loaded") =>
          /\ Len(devices_data) = Len(grouped_data)
          /\ \A d \in 1..Len(grouped_data) : \E e \in 1..Len(devices_data) :
                LET written == grouped_data[d].records
                    read == devices_data[e]
                IN /\ read.key = grouped_data[d].key
                   /\ Len(read.timestamps) = Len(written)
                   /\ Len(read.power_watts) = Len(written)
                   /\ \A k \in 1..Len(written) :
                         /\ read.timestamps[k] = DigitsValue(written[k].timestamp.s)
                         /\ read.power_watts[k] = written[k].power_watt.n

\* two files re-read, one of them with two rows and a negative power
C20_Witness ==
    /\ prog = "plot_csv"
    /\ pc = "loaded"
    /\ Len(devices_data) = 2
    /\ \E e \in 1..2 :
          /\ devices_data[e].key = Chirop5
          /\ devices_data[e].timestamps = <<1, 2>>
          /\ devices_data[e].power_watts = <<-1, 1>>

\* the grouping step of the script that runs leaves this record out
Skipped(record) ==
    LET device_id == Get(record, "device_id")
        timestamp == Get(record, "timestamp")
        value == Get(record, "value")
    IN IF prog = "simple" THEN ~HasAllKeys(record)
       ELSE IF prog = "plot" THEN ~HasRequiredFields(device_id, timestamp, value)
       ELSE ~IsComplete(device_id, timestamp, value)

\* C21: once the grouping loop of extract_and_group_data,
\* json_to_csv_simple.main or load_data_from_json is over, the number of
\* warnings printed equals the number of records the loop skipped.
C21_EverySkipIsReported ==
    (/\ prog \in {"extract", "simple", "plot"}
     /\ data.kind = "array"
     /\ pc \in {"write", "done", "exit1"}) =>
        warnings = Len(SelectSeq(data.items, Skipped))

\* C22: no step of extract_and_group_data, write_csv_files or
\* chirop/json_to_csv.json_to_csv changes the loaded list of records: its
\* length, its order and the fields of its records stay what json.load
\* returned.
C22_InputNotModified ==
    [][(prog \in {"extract", "chirop_csv"}) => (data' = data)]_vars

\* the series of the device has been sorted and written, the input still has
\* the later record first
C22_Witness ==
    /\ prog = "extract"
    /\ pc = "done"
    /\ data.items = <<Dict(Chirop5, T2, Num(1)), Dict(Chirop5, T1, Num(-1))>>
    /\ Len(grouped_data) = 1
    /\ grouped_data[1].records = <<Row(T1, Num(-1)), Row(T2, Num(1))>>
    /\ Len(files) = 1

\* some file of data_files + config_files does not exist
SomeFileMissing == \E f \in 1..6 : ~exists[f]

\* C23: in plot_chirop5_power.main and plot_chirop5_timewindow.main, when
\* one of the six files does not exist, the run never loads, plots or saves
\* anything, and it returns with the first missing file reported; in every
\* run nothing is plotted or saved once a file has been reported.
C23_MissingFileStopsRun ==
    /\ SomeFileMissing =>
          /\ plots = <<>> /\ files = <<>> /\ config_results = <<>>
          /\ pc \in {"check", "returned"}
          /\ pc = "returned" =>
                (missing # 0 /\ ~exists[missing] /\ \A f \in 1..(missing - 1) : exists[f])
    /\ missing # 0 => (plots = <<>> /\ files = <<>> /\ pc = "returned")

\* the second configuration file is missing and has been reported
C23_Witness ==
    /\ prog = "power_main"
    /\ pc = "returned"
    /\ missing = 5
    /\ plots = <<>>

Categories(legend) == {legend[k].category : k \in 1..Len(legend)}

\* C24: when plot_power_curves is over, every experiment has its subplot
\* and the figure is saved, whatever load_config_info returned; a subplot
\* whose configuration gave no limit has no legend entry, and a subplot has
\* a Package or DRAM entry only if that limit was extracted; the run ends
\* on an exception only while a data file is being loaded.
C24_ConfigFailureNotFatal ==
    prog = "power_main" =>
        /\ \A k \in 1..Len(config_results) :
              /\ k <= Len(plots)
              /\ plots[k].chart = "separate" /\ plots[k].idx = k
              /\ "Package" \in Categories(plots[k].legend)
                    => config_results[k].package_limit # NoLimit
              /\ "DRAM" \in Categories(plots[k].legend)
                    => config_results[k].dram_limit # NoLimit
              /\ (/\ config_results[k].package_limit = NoLimit
                  /\ config_results[k].dram_limit = NoLimit)
                    => plots[k].legend = <<>>
        /\ pc \in {"combined", "returned"} /\ missing = 0 =>
              /\ Len(config_results) = 3
              /\ Len(files) >= 2
              /\ files[1] = "chirop5_power_separate.pdf"
              /\ files[2] = "chirop5_power_separate.png"
        /\ pc = "crashed" => Len(plots) = Len(config_results)

\* the second experiment has no limit at all, its subplot is drawn without
\* a legend and the figure is saved
C24_Witness ==
    /\ prog = "power_main"
    /\ pc = "combined"
    /\ Len(config_results) = 3
    /\ config_results[2] = [package_limit |-> NoLimit, dram_limit |-> NoLimit]
    /\ plots[2].legend = <<>>
    /\ plots[1].legend # <<>>
    /\ Len(files) = 2

\* the zone of the last zone marker among the first n lines, "None" when
\* there is none
LatestZone(ls, n) ==
    LET markers == {k \in 1..n : \/ Contains(ls[k], "name: package-")
                                 \/ Contains(ls[k], "name: dram")}
    IN IF markers = {} THEN "None"
       ELSE LET m == CHOOSE k \in markers : \A j \in markers : j <= k
            IN IF Contains(ls[m], "name: package-") THEN "package" ELSE "dram"

\* C25: a step of the scan of load_config_info that stores a limit stores it
\* under dram_limit only if the last zone marker up to its line is
\* 'name: dram', under package_limit only if it is 'name: package-', and
\* stores nothing when there is no marker yet; after every step in_dram is
\* true exactly when current_zone is 'dram'.
C25_LimitGoesToLatestZone ==
    [][/\ in_dram' <=> (current_zone' = "dram")
       /\ (cpc = "scan" /\ info' # info) =>
             LET zone == LatestZone(lines, li + 1)
             IN /\ (info'.dram_limit # info.dram_limit) => (zone = "dram")
                /\ (info'.package_limit # info.package_limit) => (zone = "package")]_vars

\* a package zone opened after the dram zone: the limit is a package limit
C25_Witness ==
    /\ cpc = "returned"
    /\ lines = <<"name: dram", "name: package-0", "  name: long_term",
                 "  power_limit_uw: 15000000">>
    /\ info = [package_limit |-> Watts(15000000), dram_limit |-> NoLimit]

\* a line that opens a zone or a block: it contains 'name:'
NameLine(line) ==
    line \in {"name: package-0", "name: package-1", "  name: long_term",
              "  name: short_term"}

\* C26: when load_timewindow_info returns a window, the line it was read
\* from follows a 'name: long_term' line that follows a 'name: package-0'
\* line, with no other 'name:' line in between: the value is that of the
\* long_term block of package-0.
C26_WindowOfPackage0LongTerm ==
    (cpc = "returned" /\ info # NoWindow) =>
        \E p \in 1..li : \E l \in (p + 1)..li :
            /\ Contains(lines[p], "name: package-0")
            /\ Contains(lines[l], "name: long_term")
            /\ \A k \in ((p + 1)..(l - 1)) \cup ((l + 1)..li) : ~NameLine(lines[k])

\* the cluster has no entry
NoEntry == [cluster |-> "None"]

\* the entry of a cluster in a configuration file, as json.load gives it:
\* the value of its last member of that name
EntryOf(file, cluster) ==
    LET at == {k \in 1..Len(file.entries) : file.entries[k].key = cluster}
    IN IF file.kind # "object" \/ at = {} THEN NoEntry
       ELSE file.entries[CHOOSE k \in at : \A j \in at : j <= k].value

\* C27: a call of add_to_config that returns leaves a configuration in which
\* the entry of cluster_name is the new profile, whatever it was before, and
\* the entry of every other cluster is what it was; each cluster has one
\* member, and when there was no file the new profile is the only member.
C27_OnlyOneEntryReplaced ==
    [][(pc = "add" /\ pc' = "done") =>
          /\ config_file'.kind = "object"
          /\ EntryOf(config_file', sys_argv[2]) = profile
          /\ \A c \in {"a", "b"} \ {sys_argv[2]} :
                EntryOf(config_file', c) = EntryOf(config_file, c)
          /\ \A a, b \in 1..Len(config_file'.entries) :
                a # b => config_file'.entries[a].key # config_file'.entries[b].key
          /\ config_file.kind = "absent" => Len(config_file'.entries) = 1]_vars

\* the profile of cluster a has replaced the one the file held, next to the
\* one of cluster b
C27_Witness ==
    /\ pc = "done"
    /\ sys_argv[2] = "a"
    /\ Len(config_file.entries) = 2
    /\ config_file.entries[1].key = "b"
    /\ config_file.entries[2] = [key |-> "a", value |-> profile]
    /\ config_file.entries[1].value.cluster = "b"
    /\ profile.memory_gb = 500

\* C28: add_machine_profile.main opens the configuration file for writing,
\* and changes it, only when it was given two arguments and the answer to
\* the prompt is 'y' or 'Y'.
C28_WriteOnlyAfterYes ==
    [][(config_file' # config_file \/ files' # files) =>
          /\ Len(sys_argv) = 3
          /\ response \in {<<"y">>, <<"Y">>}]_vars

\* the answer was 'Y' and the file has been written
C28_Witness ==
    /\ pc = "done"
    /\ response = <<"Y">>
    /\ files = <<"machine_profiles.json">>
    /\ EntryOf(config_file, sys_argv[2]) = profile

====
